---- MODULE Spec2Model ----
(***************************************************************************)
(* Model of the two standalone yfinance bridge scripts:                    *)
(*   backend/services/market-data/python/yfinance_fetcher.py     (script 1)*)
(*   backend/services/price-history/python/yfinance_history_fetcher.py     *)
(*                                                                (script 2)*)
(* Each script is one process: it reads a request from stdin, queries the  *)
(* provider library, normalises what it gets and writes one JSON response. *)
(*                                                                         *)
(* Python values are tagged records.  A Python str is a sequence of        *)
(* one-character strings, so that strip(), slicing and str() are computed. *)
(* A float is either finite, [t |-> "float", f |-> k] standing for k/2, or *)
(* one of the three non-finite floats, [t |-> "float", nf |-> ...].        *)
(* An exception leaving a function is the value Raise.                     *)
(***************************************************************************)
EXTENDS Integers, Sequences, FiniteSets, TLC

VARIABLES
    pc,              \* position of the process in main(), or in the harness
    stdin,           \* content of standard input
    provider,        \* behaviour of the yfinance library in this run
    args,            \* main: args
    ticker,          \* main: ticker
    history_days,    \* script 1 main: history_days
    start_date,      \* script 2 main: start_date
    period,          \* script 2 main: period
    interval,        \* script 2 main: interval
    payload,         \* script 1 main: info, fast_info, history_df, dividends, payload
    rows,            \* script 2 main: rows
    cursor,          \* script 2 main: position of the iterrows() loop
    calls,           \* calls made into the provider library, in order
    stdout,          \* documents written to standard output, in order
    exitCode,        \* process exit status, Unset while running
    error,           \* main: the exception caught by the except clause
    arg,             \* helper harness: the argument handed to a helper
    result           \* helper harness: what the helper returned

vars == <<pc, stdin, provider, args, ticker, history_days, start_date, period,
          interval, payload, rows, cursor, calls, stdout, exitCode, error, arg, result>>

(***************************************************************************)
(* Bounds of the model.                                                    *)
(***************************************************************************)
MaxDepth == 2       \* nesting depth of containers and wrappers in a raw value
MaxLen == 2         \* entries in a list, tuple, mapping, array or series
MaxRows == 2        \* rows of a price history returned by the provider
MaxFaults == 1      \* attributes, rows or cells of one run in which the provider misbehaves

(***************************************************************************)
(* Python values.                                                          *)
(***************************************************************************)
Unset == [t |-> "unset"]
Raise == [t |-> "raise"]
PyNone == [t |-> "none"]
PyBool(b) == [t |-> "bool", b |-> b]
PyInt(i) == [t |-> "int", i |-> i]
PyFloat(k) == [t |-> "float", f |-> k]
NaN == [t |-> "float", nf |-> "nan"]
PosInf == [t |-> "float", nf |-> "inf"]
NegInf == [t |-> "float", nf |-> "-inf"]
PyComplex == [t |-> "complex"]
PyString(s) == [t |-> "str", s |-> s]
PyList(l) == [t |-> "list", l |-> l]
PyTuple(l) == [t |-> "tuple", l |-> l]
PyDict(items) == [t |-> "dict", items |-> items]
PyDate(y, m, d) == [t |-> "date", y |-> y, m |-> m, d |-> d]
\* aware: the datetime carries a tzinfo, off being its UTC offset in hours
PyDateTime(y, m, d, h, aware, off) ==
    [t |-> "datetime", y |-> y, m |-> m, d |-> d, h |-> h, aware |-> aware, off |-> off]
\* an object of a type the scripts know nothing about; strOk: its __str__ returns
PyObject(repr, strOk) == [t |-> "obj", repr |-> repr, strOk |-> strOk]

\* A capability (method) of a provider wrapper: missing, raising, or returning v.
NoCap == [has |-> FALSE]
BadCap == [has |-> TRUE, ok |-> FALSE]
Cap(v) == [has |-> TRUE, ok |-> TRUE, v |-> v]
Wrapper(item, tolist, repr) == [t |-> "wrapper", item |-> item, tolist |-> tolist, repr |-> repr]

IsFinite(v) == "f" \in DOMAIN v

\* a string literal of the source (a key, a code, a message), held as one token
Text(literal) == PyString(<<literal>>)

(***************************************************************************)
(* Strings.                                                                *)
(***************************************************************************)
Whitespace == {" ", "\t", "\n", "\r"}

RECURSIVE LStrip(_)
LStrip(s) == IF s # <<>> /\ Head(s) \in Whitespace THEN LStrip(Tail(s)) ELSE s

RECURSIVE RStrip(_)
RStrip(s) ==
    IF s # <<>> /\ s[Len(s)] \in Whitespace THEN RStrip(SubSeq(s, 1, Len(s) - 1)) ELSE s

\* str.strip()
Strip(s) == RStrip(LStrip(s))

\* s[:n]
Prefix(s, n) == SubSeq(s, 1, IF Len(s) < n THEN Len(s) ELSE n)

Digit(n) == <<"0", "1", "2", "3", "4", "5", "6", "7", "8", "9">>[n + 1]

RECURSIVE NatToStr(_)
NatToStr(n) == IF n < 10 THEN <<Digit(n)>> ELSE NatToStr(n \div 10) \o <<Digit(n % 10)>>

IntToStr(n) == IF n < 0 THEN <<"-">> \o NatToStr(0 - n) ELSE NatToStr(n)

\* repr of the finite float k/2
FloatToStr(k) ==
    LET a == IF k < 0 THEN 0 - k ELSE k
    IN  (IF k < 0 THEN <<"-">> ELSE <<>>)
            \o NatToStr(a \div 2) \o <<".">> \o (IF a % 2 = 1 THEN <<"5">> ELSE <<"0">>)

Pad2(n) == IF n < 10 THEN <<"0">> \o NatToStr(n) ELSE NatToStr(n)
Pad4(n) ==
    IF n < 10 THEN <<"0", "0", "0">> \o NatToStr(n)
    ELSE IF n < 100 THEN <<"0", "0">> \o NatToStr(n)
    ELSE IF n < 1000 THEN <<"0">> \o NatToStr(n)
    ELSE NatToStr(n)

\* datetime.date.isoformat()
DateIso(v) == Pad4(v.y) \o <<"-">> \o Pad2(v.m) \o <<"-">> \o Pad2(v.d)

\* the "+HH:00" suffix of an aware datetime
OffsetIso(v) ==
    IF ~v.aware THEN <<>>
    ELSE (IF v.off < 0 THEN <<"-">> \o Pad2(0 - v.off) ELSE <<"+">> \o Pad2(v.off))
            \o <<":", "0", "0">>

\* datetime.datetime.isoformat(sep)
DateTimeIso(v, sep) ==
    DateIso(v) \o <<sep>> \o Pad2(v.h) \o <<":", "0", "0", ":", "0", "0">> \o OffsetIso(v)

\* value.isoformat() of a date or a datetime
IsoFormat(v) == IF v.t = "datetime" THEN DateTimeIso(v, "T") ELSE DateIso(v)

RECURSIVE Join(_, _)
\* sep.join(parts)
Join(parts, sep) ==
    IF parts = <<>> THEN <<>>
    ELSE IF Len(parts) = 1 THEN parts[1]
    ELSE parts[1] \o sep \o Join(Tail(parts), sep)

\* str(value) raises: only an object whose own __str__ raises
StrRaises(v) == v.t = "obj" /\ ~v.strOk

RECURSIVE ToStr(_)
\* str(value), the characters
ToStr(v) ==
    CASE v.t = "none" -> <<"N", "o", "n", "e">>
      [] v.t = "bool" -> IF v.b THEN <<"T", "r", "u", "e">> ELSE <<"F", "a", "l", "s", "e">>
      [] v.t = "int" -> IntToStr(v.i)
      [] v.t = "float" ->
            IF IsFinite(v) THEN FloatToStr(v.f)
            ELSE IF v.nf = "nan" THEN <<"n", "a", "n">>
            ELSE IF v.nf = "inf" THEN <<"i", "n", "f">>
            ELSE <<"-", "i", "n", "f">>
      [] v.t = "str" -> v.s
      [] v.t = "date" -> DateIso(v)
      [] v.t = "datetime" -> DateTimeIso(v, " ")
      [] v.t = "list" ->
            LET parts == [i \in 1..Len(v.l) |->
                            IF v.l[i].t = "str" THEN <<"'">> \o v.l[i].s \o <<"'">>
                            ELSE ToStr(v.l[i])]
            IN  <<"[">> \o Join(parts, <<",", " ">>) \o <<"]">>
      [] v.t = "dict" /\ v.items = <<>> -> <<"{", "}">>
      [] OTHER -> v.repr

(***************************************************************************)
(* Script 1: _to_json_compatible.                                          *)
(***************************************************************************)
\* variant: only NaN is recognised as non-finite (the x != x test)
NormalizeFloatNanOnly(value) == IF value = NaN THEN PyNone ELSE value

\* the float branch: a finite float as it is, a non-finite one as None
NormalizeFloat(value) == IF IsFinite(value) THEN value ELSE PyNone

\* variant: an existing key keeps its first value (setdefault)
DictSetKeepFirst(items, key, val) ==
    IF \E i \in 1..Len(items) : items[i][1] = key THEN items
    ELSE Append(items, <<key, val>>)

\* d[key] = val on an insertion-ordered dict held as a sequence of <<key, value>>
DictSet(items, key, val) ==
    IF \E i \in 1..Len(items) : items[i][1] = key
    THEN [i \in 1..Len(items) |-> IF items[i][1] = key THEN <<key, val>> ELSE items[i]]
    ELSE Append(items, <<key, val>>)

\* d[key] (the mapping holds the key) and key in d
Lookup(d, key) == d.items[CHOOSE i \in 1..Len(d.items) : d.items[i][1] = key][2]
HasKey(d, key) == \E i \in 1..Len(d.items) : d.items[i][1] = key

RECURSIVE DictFromPairs(_, _)
\* the dict a comprehension or dict() builds from pairs, in order, onto acc
DictFromPairs(pairs, acc) ==
    IF pairs = <<>> THEN acc
    ELSE DictFromPairs(Tail(pairs), DictSet(acc, Head(pairs)[1], Head(pairs)[2]))

RECURSIVE ToJsonCompatible(_)
ToJsonCompatible(value) ==
    CASE value.t = "none" -> PyNone
      [] value.t = "bool" -> value
      [] value.t = "int" -> value
      [] value.t = "float" -> NormalizeFloat(value)
      [] value.t = "complex" -> PyNone
      [] value.t \in {"date", "datetime"} -> PyString(IsoFormat(value))
      [] OTHER ->
            LET hasItem == value.t = "wrapper" /\ value.item.has
                viaItem == IF hasItem /\ value.item.ok
                           THEN ToJsonCompatible(value.item.v) ELSE Raise
                hasTolist == value.t = "wrapper" /\ value.tolist.has
                viaTolist == IF hasTolist /\ value.tolist.ok
                             THEN ToJsonCompatible(value.tolist.v) ELSE Raise
            IN  IF hasItem /\ viaItem # Raise THEN viaItem
                ELSE IF value.t = "dict" THEN
                    LET n == Len(value.items)
                        vals == [i \in 1..n |-> ToJsonCompatible(value.items[i][2])]
                    IN  IF \E i \in 1..n : StrRaises(value.items[i][1]) \/ vals[i] = Raise
                        THEN Raise
                        ELSE PyDict(DictFromPairs(
                                [i \in 1..n |->
                                    <<PyString(ToStr(value.items[i][1])), vals[i]>>], <<>>))
                ELSE IF value.t \in {"list", "tuple"} THEN
                    LET vals == [i \in 1..Len(value.l) |-> ToJsonCompatible(value.l[i])]
                    IN  IF \E i \in 1..Len(vals) : vals[i] = Raise THEN Raise
                        ELSE PyList(vals)
                ELSE IF hasTolist /\ viaTolist # Raise THEN viaTolist
                ELSE IF StrRaises(value) THEN Raise
                ELSE PyString(ToStr(value))

(***************************************************************************)
(* Script 1: the table and series adapters.                                *)
(*                                                                         *)
(* A table is [t |-> "df"] with its column labels, index labels and        *)
(* row-major cells; emptyAttr says what reading .empty does ("ok": the     *)
(* pandas answer, "raises", or "missing": no such attribute); toDictOk     *)
(* says whether to_dict returns.  A series is [t |-> "series"] with its    *)
(* (index, value) entries in iteration order.                              *)
(***************************************************************************)
DataFrame(columns, index, data, emptyAttr, toDictOk) ==
    [t |-> "df", columns |-> columns, index |-> index, data |-> data,
     emptyAttr |-> emptyAttr, toDictOk |-> toDictOk]

Series(entries, emptyAttr, toDictOk) ==
    [t |-> "series", entries |-> entries, emptyAttr |-> emptyAttr, toDictOk |-> toDictOk]

K_columns == Text("columns")
K_index == Text("index")
K_data == Text("data")
K_date == Text("date")
K_value == Text("value")

\* pandas: DataFrame.empty, Series.empty
PandasEmpty(obj) ==
    IF obj.t = "df" THEN obj.index = <<>> \/ obj.columns = <<>> ELSE obj.entries = <<>>

\* the truth of getattr(obj, "empty", False): "raises", "True" or "False"
GetEmpty(obj) ==
    IF obj.t \notin {"df", "series"} THEN "False"
    ELSE IF obj.emptyAttr = "raises" THEN "raises"
    ELSE IF obj.emptyAttr = "missing" THEN "False"
    ELSE IF PandasEmpty(obj) THEN "True" ELSE "False"

\* pandas: DataFrame.to_dict(orient="split")
ToDictSplit(df) ==
    PyDict(<< <<K_index, PyList(df.index)>>,
              <<K_columns, PyList(df.columns)>>,
              <<K_data, PyList([i \in 1..Len(df.data) |-> PyList(df.data[i])])>> >>)

\* pandas: Series.to_dict(), the dict built from the (index, value) pairs
SeriesToDict(series) == DictFromPairs(series.entries, <<>>)

EmptyTablePayload ==
    PyDict(<< <<K_columns, PyList(<<>>)>>, <<K_index, PyList(<<>>)>>, <<K_data, PyList(<<>>)>> >>)

\* what the try block of _df_to_payload evaluates to: a value, or Raise
DfTryBody(df) ==
    IF GetEmpty(df) = "raises" THEN Raise
    ELSE IF GetEmpty(df) = "True" THEN EmptyTablePayload
    ELSE IF df.t # "df" \/ ~df.toDictOk THEN Raise
    ELSE ToJsonCompatible(ToDictSplit(df))

\* variant: no except clause around the body
DfToPayloadNoCatch(df) == IF df = PyNone THEN PyNone ELSE DfTryBody(df)

DfToPayload(df) ==
    IF df = PyNone THEN PyNone
    ELSE IF DfTryBody(df) = Raise THEN PyNone
    ELSE DfTryBody(df)

\* the loop of _series_to_payload over raw_dict.items()
SeriesPairs(raw_dict) ==
    [i \in 1..Len(raw_dict) |->
        PyDict(<< <<K_date, ToJsonCompatible(raw_dict[i][1])>>,
                  <<K_value, ToJsonCompatible(raw_dict[i][2])>> >>)]

\* what the try block of _series_to_payload evaluates to: a value, or Raise
SeriesTryBody(series) ==
    IF GetEmpty(series) = "raises" THEN Raise
    ELSE IF GetEmpty(series) = "True" THEN PyList(<<>>)
    ELSE IF series.t = "series" THEN
        IF ~series.toDictOk THEN Raise
        ELSE LET pairs == SeriesPairs(SeriesToDict(series))
             IN  IF \E i \in 1..Len(pairs) : \E j \in 1..2 : pairs[i].items[j][2] = Raise
                 THEN Raise
                 ELSE PyList(pairs)
    ELSE ToJsonCompatible(series)

SeriesToPayload(series) ==
    IF series = PyNone THEN PyNone
    ELSE IF SeriesTryBody(series) = Raise THEN PyNone
    ELSE SeriesTryBody(series)

(***************************************************************************)
(* The values the provider hands to the helpers.                           *)
(***************************************************************************)
D1 == PyDate(2024, 1, 15)
T1 == PyDateTime(2024, 1, 15, 9, FALSE, 0)
Opaque == PyObject(<<"<", "o", "b", "j", ">">>, TRUE)
\* an object whose own __str__ raises
Unprintable == PyObject(<<>>, FALSE)

Leaves ==
    {PyNone, PyBool(TRUE), PyInt(1), PyFloat(3), NaN, PosInf, NegInf, PyComplex,
     D1, T1, PyString(<<"a">>), Opaque}


\* the sequences of 1..MaxLen values that end with a value of X after NaNs
SeqsAround(X) ==
    UNION {{[i \in 1..n |-> IF i = n THEN x ELSE NaN] : x \in X} : n \in 1..MaxLen}

\* the sequences of 1..MaxLen values holding one value of X anywhere, the rest NaN
SeqsWith(X) ==
    UNION {{[i \in 1..n |-> IF i = p THEN x ELSE NaN] : x \in X, p \in 1..n} :
            n \in 1..MaxLen}

\* keys of a raw mapping: 1 and "1" are different keys with the same str()
RawKeys == {PyInt(1), PyString(<<"1">>), PyString(<<"a">>)}

KeySeqs(n) == {ks \in [1..n -> RawKeys] : \A i, j \in 1..n : i # j => ks[i] # ks[j]}

DictsAround(X) ==
    {PyDict([i \in 1..Len(vs) |-> <<ks[i], vs[i]>>]) :
        <<ks, vs>> \in UNION {KeySeqs(n) \X {v \in SeqsAround(X) : Len(v) = n} :
                                n \in 1..MaxLen}}

\* numpy scalar: item() returns the boxed Python scalar
NumpyScalar(x) == Wrapper(Cap(x), NoCap, <<"n", "p">>)
\* numpy array, pandas Index: item() only for one element, tolist() the elements
NumpyArray(elems) ==
    Wrapper(IF Len(elems) = 1 THEN Cap(elems[1]) ELSE BadCap, Cap(PyList(elems)), <<"[", "]">>)
\* a wrapper none of whose conversions works
BrokenWrapper == Wrapper(BadCap, BadCap, <<"?">>)

\* one more level of nesting around the values of X
WrapOnce(X) ==
    {PyList(l) : l \in SeqsWith(X)} \cup {PyTuple(<<x>>) : x \in X}
        \cup DictsAround(X)
        \cup {NumpyScalar(x) : x \in X}
        \cup {NumpyArray(l) : l \in SeqsAround(X)}

TableCells == {PyFloat(3), NaN, Unprintable}
ColumnSets == {<<>>, <<PyString(<<"C">>)>>, <<PyString(<<"C">>), PyString(<<"V">>)>>}
IndexSets == UNION {[1..n -> {T1}] : n \in 0..MaxLen}

Tables ==
    {DataFrame(c, ix, d, e, ok) :
        <<c, ix, d>> \in {x \in ColumnSets \X IndexSets \X
                               UNION {[1..n -> UNION {[1..m -> TableCells] : m \in 0..2}] :
                                        n \in 0..MaxLen} :
                            /\ Len(x[3]) = Len(x[2])
                            /\ \A i \in 1..Len(x[3]) : Len(x[3][i]) = Len(x[1])},
        e \in {"ok", "raises", "missing"}, ok \in BOOLEAN}

SeriesValues == {PyFloat(1), NaN, NumpyScalar(PyFloat(3)), Unprintable}
SeriesSet ==
    {Series(en, e, ok) :
        en \in UNION {[1..n -> {T1, PyDateTime(2024, 3, 15, 0, FALSE, 0)} \X SeriesValues] : n \in 0..MaxLen},
        e \in {"ok", "raises"}, ok \in BOOLEAN}

(***************************************************************************)
(* Harness for the helpers: the provider builds a value, nesting it up to  *)
(* MaxDepth deep, and hands it to one helper.  cursor is the nesting depth.*)
(***************************************************************************)

HelperInit ==
    /\ pc = "provider"
    /\ arg \in Leaves \cup {PyList(<<>>), PyDict(<<>>), BrokenWrapper} \cup Tables \cup SeriesSet
    /\ cursor = 0
    /\ result = Unset
    /\ calls = <<>>
    /\ stdin = Unset /\ provider = Unset /\ args = Unset /\ ticker = Unset
    /\ history_days = Unset /\ start_date = Unset /\ period = Unset /\ interval = Unset
    /\ payload = Unset /\ rows = Unset
    /\ stdout = <<>> /\ exitCode = Unset /\ error = Unset

HelperFrame ==
    UNCHANGED <<stdin, provider, args, ticker, history_days, start_date, period, interval,
                payload, rows, stdout, exitCode, error>>

\* the provider nests the value one level deeper
Nest ==
    /\ pc = "provider"
    /\ arg.t \notin {"df", "series"}
    /\ cursor < MaxDepth
    /\ arg' \in WrapOnce({arg})
    /\ cursor' = cursor + 1
    /\ UNCHANGED <<pc, result, calls>>
    /\ HelperFrame

CallToJsonCompatible ==
    /\ pc = "provider"
    /\ arg.t \notin {"df", "series"}
    /\ result' = ToJsonCompatible(arg)
    /\ calls' = <<"_to_json_compatible">>
    /\ pc' = "returned"
    /\ UNCHANGED <<arg, cursor>>
    /\ HelperFrame

CallDfToPayload ==
    /\ pc = "provider"
    /\ arg.t \in {"df", "none", "obj"}
    /\ result' = DfToPayload(arg)
    /\ calls' = <<"_df_to_payload">>
    /\ pc' = "returned"
    /\ UNCHANGED <<arg, cursor>>
    /\ HelperFrame

CallSeriesToPayload ==
    /\ pc = "provider"
    /\ arg.t \in {"series", "none", "obj", "list"}
    /\ result' = SeriesToPayload(arg)
    /\ calls' = <<"_series_to_payload">>
    /\ pc' = "returned"
    /\ UNCHANGED <<arg, cursor>>
    /\ HelperFrame

HelperNext == Nest \/ CallToJsonCompatible \/ CallDfToPayload \/ CallSeriesToPayload

SpecHelpers == HelperInit /\ [][HelperNext]_vars

(***************************************************************************)
(* Properties of the helpers.                                              *)
(***************************************************************************)
RECURSIVE IsNormalized(_)
\* built only from null, boolean, integer, finite float, string, sequence and
\* string-keyed mapping
IsNormalized(v) ==
    CASE v.t \in {"none", "bool", "int", "str"} -> TRUE
      [] v.t = "float" -> IsFinite(v)
      [] v.t = "list" -> \A i \in 1..Len(v.l) : IsNormalized(v.l[i])
      [] v.t = "dict" ->
            /\ \A i \in 1..Len(v.items) : v.items[i][1].t = "str" /\ IsNormalized(v.items[i][2])
            /\ \A i, j \in 1..Len(v.items) : i # j => v.items[i][1] # v.items[j][1]
      [] OTHER -> FALSE

Returned(helper) == pc = "returned" /\ calls = <<helper>>

\* C4: _to_json_compatible returns, for a raw value nested to any depth the model
\* builds, a value made only of null, boolean, integer, finite float, string,
\* sequence and string-keyed mapping; a finite float comes back unchanged and a
\* non-finite one as null, at the top and as an element of a list or tuple.
C4_ResultIsNormalized ==
    Returned("_to_json_compatible") =>
        /\ IsNormalized(result)
        /\ (arg.t = "float" => result = (IF IsFinite(arg) THEN arg ELSE PyNone))
        /\ (arg.t \in {"list", "tuple"} =>
                /\ result.t = "list" /\ Len(result.l) = Len(arg.l)
                /\ \A i \in 1..Len(arg.l) :
                      arg.l[i].t = "float" =>
                          result.l[i] = (IF IsFinite(arg.l[i]) THEN arg.l[i] ELSE PyNone))

\* a list holding NaN and a mapping keyed by the integer 1 that holds +Infinity
C4_NestedNonFinite ==
    /\ Returned("_to_json_compatible")
    /\ arg = PyList(<<NaN, PyDict(<< <<PyInt(1), PosInf>> >>)>>)
    /\ result = PyList(<<PyNone, PyDict(<< <<PyString(<<"1">>), PyNone>> >>)>>)

RECURSIVE FirstOccurrences(_, _)
\* the values of seq in order, each kept at its first occurrence only
FirstOccurrences(seq, seen) ==
    IF seq = <<>> THEN <<>>
    ELSE IF Head(seq) \in seen THEN FirstOccurrences(Tail(seq), seen)
    ELSE <<Head(seq)>> \o FirstOccurrences(Tail(seq), seen \cup {Head(seq)})

StrKey(m, i) == PyString(ToStr(m.items[i][1]))

\* C10 as stated: every entry (k, v) of the mapping is found in the result as
\* str(k) -> normalize(v), the result's keys being those of the entries, in order.
C10_EveryEntryKept ==
    (Returned("_to_json_compatible") /\ arg.t = "dict") =>
        /\ result.t = "dict"
        /\ Len(result.items) = Len(arg.items)
        /\ \A i \in 1..Len(arg.items) :
              result.items[i] = <<StrKey(arg, i), ToJsonCompatible(arg.items[i][2])>>

\* C10 amended: the result's keys are the stringified keys in order of first
\* occurrence, and each stringified key maps to the normalization of the value of
\* the LAST entry that stringifies to it (so every entry whose stringified key no
\* later entry repeats is found as str(k) -> normalize(v)).
C10_LastEntryWins ==
    (Returned("_to_json_compatible") /\ arg.t = "dict") =>
        LET n == Len(arg.items)
            keys == [i \in 1..n |-> StrKey(arg, i)]
            last(i) == CHOOSE j \in i..n :
                          keys[j] = keys[i] /\ \A k \in (j + 1)..n : keys[k] # keys[i]
        IN  /\ result.t = "dict"
            /\ [i \in 1..Len(result.items) |-> result.items[i][1]] = FirstOccurrences(keys, {})
            /\ \A i \in 1..n :
                  Lookup(result, keys[i]) = ToJsonCompatible(arg.items[last(i)][2])

\* a mapping whose keys 1 and "1" stringify alike
C10_CollidingKeys ==
    /\ Returned("_to_json_compatible")
    /\ arg = PyDict(<< <<PyInt(1), NaN>>, <<PyString(<<"1">>), PyFloat(3)>> >>)
    /\ result = PyDict(<< <<PyString(<<"1">>), PyFloat(3)>> >>)

\* nothing in the series raises: .empty reads, to_dict returns, values print
WellBehaved(series) ==
    /\ series.t = "series" /\ series.emptyAttr = "ok" /\ series.toDictOk
    /\ \A i \in 1..Len(series.entries) : series.entries[i][2] # Unprintable

\* C8 as stated: one {date, value} pair per entry of the series, the i-th pair from
\* the i-th entry, whether or not the index values are distinct; [] when empty.
C8_OnePairPerEntry ==
    (Returned("_series_to_payload") /\ WellBehaved(arg)) =>
        /\ result.t = "list"
        /\ Len(result.l) = Len(arg.entries)
        /\ \A i \in 1..Len(arg.entries) :
              result.l[i] = PyDict(<< <<K_date, ToJsonCompatible(arg.entries[i][1])>>,
                                      <<K_value, ToJsonCompatible(arg.entries[i][2])>> >>)

\* normalizing a cell of the table raises
BadCell(df) == \E i \in 1..Len(df.data) : \E j \in 1..Len(df.data[i]) : df.data[i][j] = Unprintable

\* C9: _df_to_payload always returns: null for a null table; the three empty
\* sequences when the table reports itself empty; null when reading .empty,
\* to_dict or the normalization raises; otherwise the normalized decomposition.
C9_DfToPayloadTotal ==
    Returned("_df_to_payload") =>
        /\ result # Raise
        /\ (arg.t # "df" => result = PyNone)
        /\ (arg.t = "df" =>
              IF arg.emptyAttr = "raises" THEN result = PyNone
              ELSE IF arg.emptyAttr = "ok" /\ (arg.index = <<>> \/ arg.columns = <<>>)
              THEN /\ result.t = "dict" /\ Len(result.items) = 3
                   /\ \A k \in {K_columns, K_index, K_data} :
                         HasKey(result, k) /\ Lookup(result, k) = PyList(<<>>)
              ELSE IF ~arg.toDictOk \/ BadCell(arg) THEN result = PyNone
              ELSE /\ result.t = "dict" /\ Len(result.items) = 3
                   /\ IsNormalized(result)
                   /\ Lookup(result, K_columns) = PyList(arg.columns)
                   /\ Lookup(result, K_index) =
                         PyList([i \in 1..Len(arg.index) |-> PyString(IsoFormat(arg.index[i]))])
                   /\ Lookup(result, K_data) =
                         PyList([i \in 1..Len(arg.data) |->
                                    PyList([j \in 1..Len(arg.data[i]) |->
                                               IF arg.data[i][j] = NaN THEN PyNone
                                               ELSE arg.data[i][j]])]))

\* a table whose decomposition holds a cell that cannot be normalized
C9_NormalizationRaises ==
    /\ Returned("_df_to_payload")
    /\ arg.t = "df" /\ arg.emptyAttr = "ok" /\ arg.toDictOk
    /\ arg.index # <<>> /\ arg.columns # <<>>
    /\ BadCell(arg)
    /\ result = PyNone

(***************************************************************************)
(* Standard input, the request and the response writer.                    *)
(*                                                                         *)
(* stdin is "blank" (empty or whitespace), "malformed" (json.loads raises) *)
(* or "json" with the value json.loads returns.                            *)
(***************************************************************************)
Stdin(kind, value) == [kind |-> kind, value |-> value]

\* _load_input (script 1) and _read_input (script 2) have the same body
LoadInput(in) ==
    IF in.kind = "blank" THEN PyDict(<<>>)
    ELSE IF in.kind = "malformed" THEN PyDict(<<>>)
    ELSE IF in.value.t = "dict" THEN in.value
    ELSE PyDict(<<>>)

\* args.get(key, default)
ArgsGet(d, key, default) == IF HasKey(d, key) THEN Lookup(d, key) ELSE default

\* bool(value)
Truthy(v) ==
    CASE v.t = "none" -> FALSE
      [] v.t = "bool" -> v.b
      [] v.t = "int" -> v.i # 0
      [] v.t = "float" -> ~(IsFinite(v) /\ v.f = 0)
      [] v.t = "str" -> v.s # <<>>
      [] v.t \in {"list", "tuple"} -> v.l # <<>>
      [] v.t = "dict" -> v.items # <<>>
      [] OTHER -> TRUE

DigitValue(c) == CHOOSE n \in 0..9 : Digit(n) = c

RECURSIVE DigitsToNat(_)
DigitsToNat(s) ==
    IF s = <<>> THEN 0 ELSE 10 * DigitsToNat(SubSeq(s, 1, Len(s) - 1)) + DigitValue(s[Len(s)])

AllDigits(s) == s # <<>> /\ \A i \in 1..Len(s) : \E n \in 0..9 : s[i] = Digit(n)

\* int(value): a Python int, or Raise (ValueError, TypeError, OverflowError)
ToInt(v) ==
    CASE v.t = "int" -> v
      [] v.t = "bool" -> PyInt(IF v.b THEN 1 ELSE 0)
      [] v.t = "float" ->
            IF ~IsFinite(v) THEN Raise
            ELSE PyInt(IF v.f < 0 THEN 0 - ((0 - v.f) \div 2) ELSE v.f \div 2)
      [] v.t = "str" ->
            LET body == Strip(v.s)
                signed == body # <<>> /\ Head(body) \in {"+", "-"}
                digits == IF signed THEN Tail(body) ELSE body
            IN  IF ~AllDigits(digits) THEN Raise
                ELSE PyInt(IF signed /\ Head(body) = "-" THEN 0 - DigitsToNat(digits)
                           ELSE DigitsToNat(digits))
      [] OTHER -> Raise

NonFiniteLiteral(v) ==
    [t |-> "literal",
     lit |-> IF v.nf = "nan" THEN "NaN" ELSE IF v.nf = "inf" THEN "Infinity" ELSE "-Infinity"]

RECURSIVE JsonDumps(_, _)
\* json.dumps(value, allow_nan=allow_nan): the document written, in which a
\* non-finite float is a NaN / Infinity / -Infinity literal; or Raise (ValueError
\* for a non-finite float under allow_nan=False, TypeError for a value or a key
\* that json cannot serialize)
JsonDumps(v, allow_nan) ==
    CASE v.t \in {"none", "bool", "int", "str"} -> v
      [] v.t = "float" ->
            IF IsFinite(v) THEN v ELSE IF allow_nan THEN NonFiniteLiteral(v) ELSE Raise
      [] v.t \in {"list", "tuple"} ->
            LET docs == [i \in 1..Len(v.l) |-> JsonDumps(v.l[i], allow_nan)]
            IN  IF \E i \in 1..Len(docs) : docs[i] = Raise THEN Raise ELSE PyList(docs)
      [] v.t = "dict" ->
            LET n == Len(v.items)
                docs == [i \in 1..n |-> JsonDumps(v.items[i][2], allow_nan)]
            IN  IF \E i \in 1..n :
                      \/ v.items[i][1].t \notin {"str", "int", "float", "bool", "none"}
                      \/ docs[i] = Raise
                THEN Raise
                ELSE PyDict([i \in 1..n |->
                                <<IF v.items[i][1].t = "str" THEN v.items[i][1]
                                  ELSE PyString(ToStr(v.items[i][1])), docs[i]>>])
      [] OTHER -> Raise

RECURSIVE StrictJson(_)
\* the document holds no NaN, Infinity or -Infinity literal
StrictJson(doc) ==
    CASE doc.t = "literal" -> FALSE
      [] doc.t = "list" -> \A i \in 1..Len(doc.l) : StrictJson(doc.l[i])
      [] doc.t = "dict" -> \A i \in 1..Len(doc.items) : StrictJson(doc.items[i][2])
      [] OTHER -> TRUE

K_ok == Text("ok")
K_code == Text("code")
K_error == Text("error")
K_payload == Text("payload")
K_source == Text("source")
K_ticker == Text("ticker")
K_fetched_at == Text("fetched_at")

Failure(code, message) ==
    PyDict(<< <<K_ok, PyBool(FALSE)>>, <<K_code, Text(code)>>, <<K_error, message>> >>)

InvalidInput == Failure("invalid_input", Text("ticker is required"))
DependencyMissing ==
    Failure("dependency_missing", Text("python package 'yfinance' is not installed"))
RuntimeError(err) == Failure("runtime_error", err)

\* datetime.now(timezone.utc).isoformat()
Now == PyString(IsoFormat(PyDateTime(2024, 6, 3, 12, TRUE, 0)))

(***************************************************************************)
(* The provider library as the scripts see it.                             *)
(*                                                                         *)
(* provider records what the library did in this run: import ("pending",   *)
(* "ok" or "fails"), asset (what each attribute of yf.Ticker does *)
(* when read) and history (what asset.history returned).  An attribute is  *)
(* Absent (AttributeError), Raising (any other exception) or Value(v).     *)
(***************************************************************************)
Missing == [t |-> "missing"]
Absent == [kind |-> "absent"]
Raising == [kind |-> "raises"]
Value(v) == [kind |-> "value", v |-> v]

\* getattr(asset, name, default): the value, the default, or Raise
GetAttr(asset, name, default) ==
    IF asset[name].kind = "absent" THEN default
    ELSE IF asset[name].kind = "raises" THEN Raise
    ELSE asset[name].v

ProviderError == Text("provider error")
NoProvider == [import |-> "pending", asset |-> Unset, history |-> Unset]

\* a JSON object of the present fields, in order
Request(fields) == PyDict(SelectSeq(fields, LAMBDA e : e[2] # Missing))

TickerInputs ==
    {Missing, PyNone, PyString(<<>>), PyString(<<" ">>), PyString(<<" ", "A", "B", " ">>),
     PyString(<<"A", "B">>), PyInt(7)}

NonObjectStdin ==
    {Stdin("blank", PyNone), Stdin("malformed", PyNone),
     Stdin("json", PyList(<<PyInt(1)>>)), Stdin("json", PyInt(5))}

(***************************************************************************)
(* Script 1: yfinance_fetcher.py, main().                                  *)
(***************************************************************************)
K_history_days == Text("history_days")

HistoryDaysInputs ==
    {Missing, PyNone, PyInt(0), PyInt(5), PyInt(-3), PyString(<<"7">>),
     PyString(<<"a", "b", "c">>), PyFloat(5), PyBool(TRUE), PyList(<<PyInt(1)>>), PosInf}

FetcherStdin ==
    NonObjectStdin \cup
    {Stdin("json", Request(<< <<K_ticker, tk>>, <<K_history_days, hd>> >>)) :
        tk \in TickerInputs, hd \in HistoryDaysInputs}

\* the attributes of the asset, in the order main reads them; "history" is the call
FetchOrder ==
    <<"info", "fast_info", "history", "dividends", "financials", "quarterly_financials",
      "balance_sheet", "quarterly_balance_sheet", "cashflow", "quarterly_cashflow",
      "recommendations", "institutional_holders", "major_holders", "calendar">>

MapFields == {"info", "fast_info"}
TableFields ==
    {"financials", "quarterly_financials", "balance_sheet", "quarterly_balance_sheet",
     "cashflow", "quarterly_cashflow", "recommendations", "institutional_holders",
     "major_holders"}
AttrNames == {FetchOrder[i] : i \in 1..Len(FetchOrder)}

GoodTable ==
    DataFrame(<<PyString(<<"C">>)>>, <<T1>>, << <<PyFloat(3)>> >>, "ok", TRUE)
EmptyTable == DataFrame(<<PyString(<<"C">>)>>, <<>>, <<>>, "ok", TRUE)
GoodSeries == Series(<< <<T1, PyFloat(1)>> >>, "ok", TRUE)
GoodInfo == PyDict(<< <<Text("currency"), PyString(<<"U", "S", "D">>)>>,
                      <<Text("beta"), NaN>> >>)
GoodCalendar == PyDict(<< <<Text("Earnings Date"), PyList(<<D1>>)>> >>)

\* what a well-behaved asset answers for the attribute
Healthy(name) ==
    IF name \in MapFields THEN Value(GoodInfo)
    ELSE IF name = "dividends" THEN Value(GoodSeries)
    ELSE IF name = "calendar" THEN Value(GoodCalendar)
    ELSE Value(GoodTable)

\* the other things the attribute may do
Faulty(name) ==
    {Absent, Raising, Value(PyNone)} \cup
    (IF name \in MapFields THEN {Value(PyDict(<<>>)), Value(Opaque)}
     ELSE IF name = "dividends"
          THEN {Value(Series(<<>>, "ok", TRUE)), Value(Series(<< <<T1, NaN>> >>, "ok", FALSE)),
                Value(Series(<< <<T1, Unprintable>> >>, "ok", TRUE))}
     ELSE IF name = "calendar" THEN {Value(Unprintable), Value(PyList(<<PosInf>>))}
     ELSE {Value(EmptyTable),
           Value(DataFrame(<<PyString(<<"C">>)>>, <<T1>>, << <<NaN>> >>, "ok", FALSE)),
           Value(DataFrame(<<PyString(<<"C">>)>>, <<T1>>, << <<Unprintable>> >>, "ok", TRUE)),
           Value(DataFrame(<<PyString(<<"C">>)>>, <<T1>>, << <<NaN>> >>, "raises", TRUE))})

\* the assets in which at most MaxFaults attributes are not Healthy; for "history"
\* the entry is what the call asset.history(...) does
Assets ==
    {[name \in AttrNames |-> IF name \in DOMAIN f THEN f[name] ELSE Healthy(name)] :
        f \in UNION {{g \in [P -> UNION {Faulty(n) : n \in P}] : \A n \in P : g[n] \in Faulty(n)} :
                        P \in {Q \in SUBSET AttrNames : Cardinality(Q) <= MaxFaults}}}

FetcherInit ==
    /\ pc = "start"
    /\ stdin \in FetcherStdin
    /\ provider = NoProvider
    /\ calls = <<>>
    /\ stdout = <<>> /\ exitCode = Unset /\ error = Unset
    /\ args = Unset /\ ticker = Unset /\ history_days = Unset
    /\ start_date = Unset /\ period = Unset /\ interval = Unset
    /\ payload = Unset /\ rows = Unset /\ cursor = 0
    /\ arg = Unset /\ result = Unset

FetcherFrame == UNCHANGED <<stdin, start_date, period, interval, rows, arg, result>>

\* _emit of script 1: json.dumps(payload, ensure_ascii=False, allow_nan=False)
FetcherDumps(doc) == JsonDumps(doc, FALSE)

\* args = _load_input()
FetcherLoadInput ==
    /\ pc = "start"
    /\ args' = LoadInput(stdin)
    /\ pc' = "parse"
    /\ UNCHANGED <<provider, ticker, history_days, payload, cursor, calls, stdout,
                   exitCode, error>>
    /\ FetcherFrame

\* int(args.get("history_days", 30) or 30)
ParseHistoryDays(a) ==
    LET given == ArgsGet(a, K_history_days, PyInt(30))
    IN  ToInt(IF Truthy(given) THEN given ELSE PyInt(30))

\* ticker = ...; history_days = ...: an exception here is caught by nothing, the
\* interpreter prints the traceback and exits with status 1
FetcherParse ==
    /\ pc = "parse"
    /\ ticker' = Strip(ToStr(ArgsGet(args, K_ticker, PyString(<<>>))))
    /\ IF ParseHistoryDays(args) = Raise
       THEN /\ pc' = "crashed"
            /\ exitCode' = 1
            /\ UNCHANGED history_days
       ELSE /\ pc' = "check"
            /\ history_days' = ParseHistoryDays(args).i
            /\ UNCHANGED exitCode
    /\ UNCHANGED <<provider, args, payload, cursor, calls, stdout, error>>
    /\ FetcherFrame

\* if not ticker: _emit(invalid_input); return 0
FetcherCheckTicker ==
    /\ pc = "check"
    /\ IF ticker = <<>>
       THEN /\ stdout' = Append(stdout, FetcherDumps(InvalidInput))
            /\ exitCode' = 0
            /\ pc' = "done"
       ELSE /\ pc' = "import"
            /\ UNCHANGED <<stdout, exitCode>>
    /\ UNCHANGED <<provider, args, ticker, history_days, payload, cursor, calls, error>>
    /\ FetcherFrame

\* import yfinance as yf
FetcherImport ==
    /\ pc = "import"
    /\ \E ok \in BOOLEAN :
          /\ provider' = [provider EXCEPT !.import = IF ok THEN "ok" ELSE "fails"]
          /\ calls' = Append(calls, [fn |-> "import"])
          /\ IF ok
             THEN /\ pc' = "ticker"
                  /\ UNCHANGED <<stdout, exitCode>>
             ELSE /\ stdout' = Append(stdout, FetcherDumps(DependencyMissing))
                  /\ exitCode' = 0
                  /\ pc' = "done"
    /\ UNCHANGED <<args, ticker, history_days, payload, cursor, error>>
    /\ FetcherFrame

\* asset = yf.Ticker(ticker)
FetcherCreateAsset ==
    /\ pc = "ticker"
    /\ calls' = Append(calls, [fn |-> "Ticker", ticker |-> ticker])
    /\ \/ /\ provider' = [provider EXCEPT !.asset = Raising]
          /\ error' = ProviderError
          /\ pc' = "except"
          /\ UNCHANGED <<payload, cursor>>
       \/ /\ \E asset \in Assets : provider' = [provider EXCEPT !.asset = asset]
          /\ payload' = << <<K_ticker, PyString(ticker)>>, <<K_fetched_at, Now>> >>
          /\ cursor' = 1
          /\ pc' = "fetch"
          /\ UNCHANGED error
    /\ UNCHANGED <<args, ticker, history_days, stdout, exitCode>>
    /\ FetcherFrame

\* the value main computes for the attribute it reads at this step, or Raise
FieldValue(asset, name, got) ==
    IF got = Raise THEN Raise
    ELSE IF name \in MapFields THEN ToJsonCompatible(IF Truthy(got) THEN got ELSE PyDict(<<>>))
    ELSE IF name = "dividends" THEN SeriesToPayload(got)
    ELSE IF name = "calendar" THEN ToJsonCompatible(got)
    ELSE DfToPayload(got)

\* what reading the attribute gives main: getattr with its default, or the call
ReadField(asset, name) ==
    IF name = "history" THEN (IF asset[name].kind = "value" THEN asset[name].v ELSE Raise)
    ELSE GetAttr(asset, name, IF name \in MapFields THEN PyDict(<<>>) ELSE PyNone)

\* one of: info, fast_info, history_df / "history", dividends, the tables, calendar
FetcherFetchField ==
    /\ pc = "fetch"
    /\ cursor \in 1..Len(FetchOrder)
    /\ LET name == FetchOrder[cursor]
           val == FieldValue(provider.asset, name, ReadField(provider.asset, name))
       IN  /\ calls' = IF name = "history"
                       THEN Append(calls, [fn |-> "history",
                                           period |-> IntToStr(IF history_days > 1
                                                               THEN history_days ELSE 1)
                                                        \o <<"d">>,
                                           auto_adjust |-> FALSE])
                       ELSE calls
           /\ IF val = Raise
              THEN /\ error' = ProviderError
                   /\ pc' = "except"
                   /\ UNCHANGED <<payload, cursor>>
              ELSE /\ payload' = Append(payload, <<Text(name), val>>)
                   /\ cursor' = cursor + 1
                   /\ UNCHANGED <<pc, error>>
    /\ UNCHANGED <<provider, args, ticker, history_days, stdout, exitCode>>
    /\ FetcherFrame

SuccessDoc(pl) ==
    PyDict(<< <<K_ok, PyBool(TRUE)>>, <<K_source, Text("yfinance")>>, <<K_payload, PyDict(pl)>> >>)

\* _emit({"ok": True, "source": "yfinance", "payload": payload}); return 0
FetcherEmitSuccess ==
    /\ pc = "fetch"
    /\ cursor = Len(FetchOrder) + 1
    /\ IF FetcherDumps(SuccessDoc(payload)) = Raise
       THEN /\ error' = Text("json.dumps failed")
            /\ pc' = "except"
            /\ UNCHANGED <<stdout, exitCode>>
       ELSE /\ stdout' = Append(stdout, FetcherDumps(SuccessDoc(payload)))
            /\ exitCode' = 0
            /\ pc' = "done"
            /\ UNCHANGED error
    /\ UNCHANGED <<provider, args, ticker, history_days, payload, cursor, calls>>
    /\ FetcherFrame

\* except Exception as error: _emit(runtime_error); return 0
FetcherExcept ==
    /\ pc = "except"
    /\ stdout' = Append(stdout, FetcherDumps(RuntimeError(error)))
    /\ exitCode' = 0
    /\ pc' = "done"
    /\ UNCHANGED <<provider, args, ticker, history_days, payload, cursor, calls, error>>
    /\ FetcherFrame

FetcherNext ==
    \/ FetcherLoadInput
    \/ FetcherParse
    \/ FetcherCheckTicker
    \/ FetcherImport
    \/ FetcherCreateAsset
    \/ FetcherFetchField
    \/ FetcherEmitSuccess
    \/ FetcherExcept

SpecFetcher == FetcherInit /\ [][FetcherNext]_vars

(***************************************************************************)
(* Script 2: yfinance_history_fetcher.py.                                  *)
(***************************************************************************)
\* float(value): a float, or Raise (ValueError, TypeError).  Of the decimal
\* strings only those with no fraction or the fraction .0 or .5 are read, the
\* finite floats of the model being the halves.
ToFloat(v) ==
    CASE v.t = "float" -> v
      [] v.t = "int" -> PyFloat(2 * v.i)
      [] v.t = "bool" -> PyFloat(IF v.b THEN 2 ELSE 0)
      [] v.t = "str" ->
            LET body == Strip(v.s)
                signed == body # <<>> /\ Head(body) \in {"+", "-"}
                neg == signed /\ Head(body) = "-"
                rest == IF signed THEN Tail(body) ELSE body
                n == Len(rest)
                fraction == n > 2 /\ rest[n - 1] = "." /\ rest[n] \in {"0", "5"}
                whole == IF fraction THEN SubSeq(rest, 1, n - 2) ELSE rest
                halves == 2 * DigitsToNat(whole) + (IF fraction /\ rest[n] = "5" THEN 1 ELSE 0)
            IN  IF rest = <<"n", "a", "n">> THEN NaN
                ELSE IF rest = <<"i", "n", "f">> THEN (IF neg THEN NegInf ELSE PosInf)
                ELSE IF ~AllDigits(whole) THEN Raise
                ELSE PyFloat(IF neg THEN 0 - halves ELSE halves)
      [] OTHER -> Raise

\* variant: a value that does not convert is reported as 0.0
ToNumberZeroOnError(value) ==
    IF value = PyNone THEN PyNone
    ELSE IF ToFloat(value) = Raise THEN PyFloat(0)
    ELSE IF ToFloat(value) = NaN THEN PyNone
    ELSE ToFloat(value)

\* _to_number
ToNumber(value) ==
    IF value = PyNone THEN PyNone
    ELSE IF ToFloat(value) = Raise THEN PyNone
    ELSE IF ToFloat(value) = NaN THEN PyNone
    ELSE ToFloat(value)

\* value.astimezone(timezone.utc).date() / value.replace(tzinfo=utc).date(), for a
\* day from which the shift does not leave the month
UtcDate(v) ==
    LET hour == IF v.aware THEN v.h - v.off ELSE v.h
        day == IF hour < 0 THEN v.d - 1 ELSE IF hour > 23 THEN v.d + 1 ELSE v.d
    IN  PyDate(v.y, v.m, day)

\* _index_to_utc_date: the date string, PyNone, or Raise when str(value) raises.
\* A pandas Timestamp is a datetime whose to_pydatetime() returns that datetime.
IndexToUtcDate(value) ==
    IF value.t = "datetime" THEN PyString(DateIso(UtcDate(value)))
    ELSE IF value.t = "date" THEN PyString(DateIso(value))
    ELSE IF StrRaises(value) THEN Raise
    ELSE IF Strip(ToStr(value)) = <<>> THEN PyNone
    ELSE PyString(Prefix(Strip(ToStr(value)), 10))

Columns ==
    {"Open", "High", "Low", "Close", "Adj Close", "Volume", "Dividends", "Stock Splits"}

\* row.get(column): the cell, None when the row has no such column
RowGet(row, column) == IF row.cells[column] = Missing THEN PyNone ELSE row.cells[column]

\* _to_number(...) or 0.0
OrZero(number) == IF Truthy(number) THEN number ELSE PyFloat(0)

\* the dict main appends for a row whose index resolved to date
OutputRow(date, row) ==
    PyDict(<< <<K_date, date>>,
              <<Text("open"), ToNumber(RowGet(row, "Open"))>>,
              <<Text("high"), ToNumber(RowGet(row, "High"))>>,
              <<Text("low"), ToNumber(RowGet(row, "Low"))>>,
              <<Text("close"), ToNumber(RowGet(row, "Close"))>>,
              <<Text("adjusted_close"), ToNumber(RowGet(row, "Adj Close"))>>,
              <<Text("volume"), ToNumber(RowGet(row, "Volume"))>>,
              <<Text("dividends"), OrZero(ToNumber(RowGet(row, "Dividends")))>>,
              <<Text("stock_splits"), OrZero(ToNumber(RowGet(row, "Stock Splits")))>> >>)

K_start_date == Text("start_date")
K_period == Text("period")
K_interval == Text("interval")

HistoryTickerInputs ==
    {Missing, PyNone, PyString(<<>>), PyString(<<" ">>), PyString(<<" ", "A", "B", " ">>)}
StartDateInputs ==
    {Missing, PyNone, PyString(<<" ">>),
     PyString(<<"2", "0", "2", "4", "-", "0", "1", "-", "0", "2">>)}
PeriodInputs == {Missing, PyNone, PyString(<<"5", "y">>)}
IntervalInputs == {Missing, PyString(<<" ">>), PyString(<<"1", "w", "k">>)}

\* the window fields of a request: every start_date with every period, and each
\* interval beside an absent start_date and period
WindowInputs ==
    {<<sd, pd, Missing>> : sd \in StartDateInputs, pd \in PeriodInputs}
    \cup {<<Missing, Missing, iv>> : iv \in IntervalInputs}

\* a blank and a usable ticker go with every window; the other tickers come alone
HistoryRequests ==
    {<<tk, w>> : tk \in {PyString(<<" ">>), PyString(<<" ", "A", "B", " ">>)},
                 w \in WindowInputs}
    \cup {<<tk, <<Missing, Missing, Missing>> >> : tk \in HistoryTickerInputs}

HistoryStdin ==
    NonObjectStdin \cup
    {Stdin("json", Request(<< <<K_ticker, r[1]>>, <<K_start_date, r[2][1]>>,
                              <<K_period, r[2][2]>>, <<K_interval, r[2][3]>> >>)) :
        r \in HistoryRequests}

HealthyCell == PyFloat(3)
OddCells ==
    {Missing, NaN, PosInf, PyString(<<"n", "/", "a">>), PyString(<<" ", "2", ".", "5">>),
     PyInt(0)}
HealthyIndex == T1
OddIndexes ==
    {PyDateTime(2024, 1, 15, 22, TRUE, -5), D1, PyString(<<" ">>), PyInt(0),
     PyString(<<"2", "0", "2", "4", "-", "0", "1", "-", "1", "6", " ", "0", "0", ":", "0", "0">>)}

HistoryRow(index, cells) == [index |-> index, cells |-> cells]
HealthyRow == HistoryRow(HealthyIndex, [c \in Columns |-> HealthyCell])
\* a healthy row but for the given cells
RowWith(odd) ==
    HistoryRow(HealthyIndex, [c \in Columns |-> IF c \in DOMAIN odd THEN odd[c] ELSE HealthyCell])

\* the rows that differ from HealthyRow: any one column absent; a price or an action
\* column holding an odd cell; an unparseable volume; an odd index; two odd cells
OddRows ==
    {RowWith(col :> Missing) : col \in Columns}
    \cup {RowWith(col :> cell) : col \in {"Open", "Dividends"}, cell \in OddCells}
    \cup {RowWith("Volume" :> PyString(<<"n", "/", "a">>)),
          RowWith(("Open" :> NaN) @@ ("Close" :> PyString(<<"n", "/", "a">>))),
          RowWith(("Adj Close" :> PosInf) @@ ("Stock Splits" :> NaN))}
    \cup {HistoryRow(ix, [c \in Columns |-> HealthyCell]) : ix \in OddIndexes}

\* the frames of at most MaxRows rows of which at most budget are odd
Frames(budget) ==
    UNION {{[i \in 1..n |-> IF i \in DOMAIN f THEN f[i] ELSE HealthyRow] :
                f \in UNION {[P -> OddRows] :
                                P \in {Q \in SUBSET (1..n) : Cardinality(Q) <= budget}}} :
            n \in 0..MaxRows}

HealthyHistoryInfo == Value(PyDict(<< <<Text("currency"), PyString(<<"U", "S", "D">>)>> >>))
OddHistoryInfo ==
    {Absent, Raising, Value(PyNone), Value(Opaque),
     Value(PyDict(<< <<Text("beta"), NaN>> >>)),
     Value(PyDict(<< <<Text("currency"), NaN>> >>)),
     Value(PyDict(<< <<Text("currency"), Opaque>> >>))}

HistoryInit ==
    /\ pc = "start"
    /\ stdin \in HistoryStdin
    /\ provider = NoProvider
    /\ calls = <<>>
    /\ stdout = <<>> /\ exitCode = Unset /\ error = Unset
    /\ args = Unset /\ ticker = Unset /\ history_days = Unset
    /\ start_date = Unset /\ period = Unset /\ interval = Unset
    /\ payload = Unset /\ rows = Unset /\ cursor = 0
    /\ arg = Unset /\ result = Unset

HistoryFrame == UNCHANGED <<stdin, history_days, payload, arg, result>>

\* _emit of script 2: json.dumps(payload, ensure_ascii=False), allow_nan left True
HistoryDumps(doc) == JsonDumps(doc, TRUE)

\* str(args.get(key, default)).strip()
StrippedArg(a, key, default) == Strip(ToStr(ArgsGet(a, key, PyString(default))))

\* x or None
OrNone(text) == IF text = <<>> THEN PyNone ELSE PyString(text)

\* args = _read_input(); ticker, start_date, period, interval = ...
HistoryReadInput ==
    /\ pc = "start"
    /\ args' = LoadInput(stdin)
    /\ ticker' = StrippedArg(args', K_ticker, <<>>)
    /\ start_date' = OrNone(StrippedArg(args', K_start_date, <<>>))
    /\ period' = OrNone(StrippedArg(args', K_period, <<>>))
    /\ interval' = IF StrippedArg(args', K_interval, <<"1", "d">>) = <<>> THEN <<"1", "d">>
                   ELSE StrippedArg(args', K_interval, <<"1", "d">>)
    /\ pc' = "check"
    /\ UNCHANGED <<provider, rows, cursor, calls, stdout, exitCode, error>>
    /\ HistoryFrame

\* if not ticker: _emit(invalid_input); return 0
HistoryCheckTicker ==
    /\ pc = "check"
    /\ IF ticker = <<>>
       THEN /\ stdout' = Append(stdout, HistoryDumps(InvalidInput))
            /\ exitCode' = 0
            /\ pc' = "done"
       ELSE /\ pc' = "import"
            /\ UNCHANGED <<stdout, exitCode>>
    /\ UNCHANGED <<provider, args, ticker, start_date, period, interval, rows, cursor,
                   calls, error>>
    /\ HistoryFrame

\* import yfinance as yf
HistoryImport ==
    /\ pc = "import"
    /\ \E ok \in BOOLEAN :
          /\ provider' = [provider EXCEPT !.import = IF ok THEN "ok" ELSE "fails"]
          /\ calls' = Append(calls, [fn |-> "import"])
          /\ IF ok
             THEN /\ pc' = "ticker"
                  /\ UNCHANGED <<stdout, exitCode>>
             ELSE /\ stdout' = Append(stdout, HistoryDumps(DependencyMissing))
                  /\ exitCode' = 0
                  /\ pc' = "done"
    /\ UNCHANGED <<args, ticker, start_date, period, interval, rows, cursor, error>>
    /\ HistoryFrame

\* asset = yf.Ticker(ticker)
HistoryCreateAsset ==
    /\ pc = "ticker"
    /\ calls' = Append(calls, [fn |-> "Ticker", ticker |-> ticker])
    /\ \/ /\ provider' = [provider EXCEPT !.asset = Raising]
          /\ error' = ProviderError
          /\ pc' = "except"
       \/ /\ \E info \in {HealthyHistoryInfo} \cup OddHistoryInfo :
                provider' = [provider EXCEPT !.asset = [info |-> info]]
          /\ pc' = "history"
          /\ UNCHANGED error
    /\ UNCHANGED <<args, ticker, start_date, period, interval, rows, cursor, stdout, exitCode>>
    /\ HistoryFrame

\* history_kwargs, with the name of the method called
HistoryKwargs(sd, pd, iv) ==
    LET base == [fn |-> "history", interval |-> iv, auto_adjust |-> FALSE, actions |-> TRUE]
    IN  IF sd # PyNone THEN base @@ [start |-> sd.s]
        ELSE IF pd # PyNone THEN base @@ [period |-> pd.s]
        ELSE base @@ [period |-> <<"m", "a", "x">>]

\* history = asset.history(**history_kwargs); rows = []
HistoryCall ==
    /\ pc = "history"
    /\ calls' = Append(calls, HistoryKwargs(start_date, period, interval))
    /\ \/ /\ provider' = [provider EXCEPT !.history = Raising]
          /\ error' = ProviderError
          /\ pc' = "except"
          /\ UNCHANGED <<rows, cursor>>
       \/ /\ \E h \in {PyNone} \cup
                      {[t |-> "df", rows |-> r] :
                          r \in Frames(IF provider.asset.info = HealthyHistoryInfo
                                       THEN MaxFaults ELSE MaxFaults - 1)} :
                provider' = [provider EXCEPT !.history = h]
          /\ rows' = <<>>
          /\ cursor' = 1
          /\ pc' = "rows"
          /\ UNCHANGED error
    /\ UNCHANGED <<args, ticker, start_date, period, interval, stdout, exitCode>>
    /\ HistoryFrame

\* history is not None and not history.empty, and iterrows() has a row left
RowsLeft == provider.history # PyNone /\ cursor <= Len(provider.history.rows)

\* one turn of the loop over history.iterrows()
HistoryRowStep ==
    /\ pc = "rows"
    /\ RowsLeft
    /\ LET row == provider.history.rows[cursor]
           date == IndexToUtcDate(row.index)
       IN  IF date = Raise
           THEN /\ error' = Text("str failed")
                /\ pc' = "except"
                /\ UNCHANGED <<rows, cursor>>
           ELSE /\ rows' = IF Truthy(date) THEN Append(rows, OutputRow(date, row)) ELSE rows
                /\ cursor' = cursor + 1
                /\ UNCHANGED <<pc, error>>
    /\ UNCHANGED <<provider, args, ticker, start_date, period, interval, calls, stdout,
                   exitCode>>
    /\ HistoryFrame

HistorySuccessDoc(currency) ==
    PyDict(<< <<K_ok, PyBool(TRUE)>>,
              <<K_payload, PyDict(<< <<K_ticker, PyString(ticker)>>,
                                     <<Text("currency"), currency>>,
                                     <<K_fetched_at, Now>>,
                                     <<Text("rows"), PyList(rows)>> >>)>> >>)

\* info = getattr(asset, "info", {}) or {}; currency = info.get("currency"); _emit(...)
HistoryEmitSuccess ==
    /\ pc = "rows"
    /\ ~RowsLeft
    /\ LET got == GetAttr(provider.asset, "info", PyDict(<<>>))
           info == IF got # Raise /\ Truthy(got) THEN got ELSE PyDict(<<>>)
           currency == ArgsGet(info, Text("currency"), PyNone)
       IN  IF got = Raise
           THEN /\ error' = ProviderError
                /\ pc' = "except"
                /\ UNCHANGED <<stdout, exitCode>>
           ELSE IF info.t # "dict"
           THEN /\ error' = Text("object has no attribute 'get'")
                /\ pc' = "except"
                /\ UNCHANGED <<stdout, exitCode>>
           ELSE IF HistoryDumps(HistorySuccessDoc(currency)) = Raise
           THEN /\ error' = Text("json.dumps failed")
                /\ pc' = "except"
                /\ UNCHANGED <<stdout, exitCode>>
           ELSE /\ stdout' = Append(stdout, HistoryDumps(HistorySuccessDoc(currency)))
                /\ exitCode' = 0
                /\ pc' = "done"
                /\ UNCHANGED error
    /\ UNCHANGED <<provider, args, ticker, start_date, period, interval, rows, cursor, calls>>
    /\ HistoryFrame

\* except Exception as error: _emit(runtime_error); return 0
HistoryExcept ==
    /\ pc = "except"
    /\ stdout' = Append(stdout, HistoryDumps(RuntimeError(error)))
    /\ exitCode' = 0
    /\ pc' = "done"
    /\ UNCHANGED <<provider, args, ticker, start_date, period, interval, rows, cursor,
                   calls, error>>
    /\ HistoryFrame

HistoryNext ==
    \/ HistoryReadInput
    \/ HistoryCheckTicker
    \/ HistoryImport
    \/ HistoryCreateAsset
    \/ HistoryCall
    \/ HistoryRowStep
    \/ HistoryEmitSuccess
    \/ HistoryExcept

SpecHistory == HistoryInit /\ [][HistoryNext]_vars

(***************************************************************************)
(* Properties of the two processes.                                        *)
(***************************************************************************)
Terminated == pc \in {"done", "crashed"}

\* C1: whatever stdin holds and whatever the provider does, the process writes
\* exactly one response document and exits with status 0.
C1_OneResponseExitZero == Terminated => (Len(stdout) = 1 /\ exitCode = 0)

\* the request has no ticker or one that is blank after trimming
BlankTicker(in) ==
    LET a == LoadInput(in)
    IN  \/ ~HasKey(a, K_ticker)
        \/ Lookup(a, K_ticker).t = "str" /\ Strip(Lookup(a, K_ticker).s) = <<>>

\* C2: a request whose ticker is missing or blank is answered with exactly the
\* invalid_input response, whatever its other fields hold, and before the provider
\* library is loaded or called.
C2_BlankTickerIsInvalidInput ==
    (Terminated /\ BlankTicker(stdin)) => (stdout = <<InvalidInput>> /\ calls = <<>>)

\* C3: every document written to standard output is strict JSON: it holds no NaN,
\* Infinity or -Infinity literal.
C3_OutputIsStrictJson == \A i \in 1..Len(stdout) : StrictJson(stdout[i])

OptionalFields == {"dividends", "calendar"} \cup TableFields

\* the attribute is absent, or reading it or converting what it holds fails
FieldFails(asset, name) ==
    \/ asset[name] \in {Absent, Raising}
    \/ /\ asset[name].v # PyNone
       /\ \/ name = "calendar" /\ asset[name].v = Unprintable
          \/ name = "dividends" /\ SeriesTryBody(asset[name].v) = Raise
          \/ name \in TableFields /\ DfTryBody(asset[name].v) = Raise

\* C5: when one optional field of the asset is absent or fails, all else being
\* healthy, the response is ok with that field null and every other field as the
\* healthy asset gives it.
C5_SingleFailureIsNull ==
    (/\ pc = "done"
     /\ provider.import = "ok"
     /\ provider.asset \notin {Unset, Raising}
     /\ \E name \in OptionalFields :
           /\ FieldFails(provider.asset, name)
           /\ \A other \in AttrNames \ {name} : provider.asset[other] = Healthy(other))
    => LET name == CHOOSE n \in OptionalFields : provider.asset[n] # Healthy(n)
           doc == stdout[1]
       IN  /\ Lookup(doc, K_ok) = PyBool(TRUE)
           /\ Lookup(Lookup(doc, K_payload), Text(name)) = PyNone
           /\ \A other \in AttrNames \ {name} :
                 Lookup(Lookup(doc, K_payload), Text(other))
                     = FieldValue(provider.asset, other, Healthy(other).v)

\* the rows of the history the loop has gone through
Processed == SubSeq(provider.history.rows, 1, cursor - 1)

\* the positions, in order, of the processed rows whose index resolves to a date string
RECURSIVE KeptPositions(_, _)
KeptPositions(frame, i) ==
    IF i > Len(frame) THEN <<>>
    ELSE IF IndexToUtcDate(frame[i].index).t = "str" /\ IndexToUtcDate(frame[i].index).s # <<>>
         THEN <<i>> \o KeptPositions(frame, i + 1)
         ELSE KeptPositions(frame, i + 1)

PriceFields ==
    << <<"open", "Open">>, <<"high", "High">>, <<"low", "Low">>, <<"close", "Close">>,
       <<"adjusted_close", "Adj Close">>, <<"volume", "Volume">> >>
ActionFields == << <<"dividends", "Dividends">>, <<"stock_splits", "Stock Splits">> >>

\* the cell is absent, or its conversion to float fails
Unparseable(cell) == cell = Missing \/ ToFloat(cell) = Raise

\* C6: each row whose index resolves to a date string yields exactly one output
\* row, in the history's order; open .. volume are the float of their cell, or null
\* when the cell is absent, NaN or not convertible, each independently of the
\* others; dividends and stock_splits are never null, and 0.0 when their cell is
\* absent or unparseable.
C6_RowsFieldByField ==
    (pc \in {"rows", "done", "except"} /\ provider.history \notin {Unset, Raising, PyNone}) =>
        LET kept == KeptPositions(Processed, 1)
        IN  /\ Len(rows) = Len(kept)
            /\ \A k \in 1..Len(kept) :
                  LET row == Processed[kept[k]]
                      out == rows[k]
                  IN  /\ Lookup(out, K_date) = IndexToUtcDate(row.index)
                      /\ \A f \in 1..Len(PriceFields) :
                            LET cell == row.cells[PriceFields[f][2]]
                            IN  Lookup(out, Text(PriceFields[f][1])) =
                                    (IF Unparseable(cell) \/ cell = NaN THEN PyNone
                                     ELSE ToFloat(cell))
                      /\ \A f \in 1..Len(ActionFields) :
                            LET cell == row.cells[ActionFields[f][2]]
                                got == Lookup(out, Text(ActionFields[f][1]))
                            IN  /\ got # PyNone
                                /\ Unparseable(cell) => got = PyFloat(0)
                                /\ ~(Unparseable(cell) \/ cell = NaN) => got = ToFloat(cell)

\* a response whose only row comes from a history row with an unparseable Volume
C6_BadVolumeRowKept ==
    /\ pc = "done"
    /\ provider.history \notin {Unset, Raising, PyNone}
    /\ Len(provider.history.rows) = 1
    /\ provider.history.rows[1].cells["Volume"] = PyString(<<"n", "/", "a">>)
    /\ Lookup(stdout[1], K_ok) = PyBool(TRUE)
    /\ Len(Lookup(Lookup(stdout[1], K_payload), Text("rows")).l) = 1
    /\ Lookup(rows[1], Text("volume")) = PyNone
    /\ Lookup(rows[1], Text("close")) = PyFloat(3)

\* the request field is explicit: present, not null, not blank after trimming
Explicit(a, key) ==
    /\ HasKey(a, key)
    /\ Lookup(a, key) # PyNone
    /\ Lookup(a, key).t = "str" => Strip(Lookup(a, key).s) # <<>>

HistoryCalls == SelectSeq(calls, LAMBDA c : c.fn = "history")

\* C7: the provider's history is called exactly once, with start = start_date when
\* the request carries an explicit start_date, otherwise with period = the
\* request's explicit period, otherwise with period = "max"; never with both; and
\* with interval "1d" when the request's interval is absent or blank.
C7_WindowPriority ==
    (pc = "done" /\ provider.import = "ok" /\ provider.asset \notin {Unset, Raising}) =>
        /\ Len(HistoryCalls) = 1
        /\ LET call == HistoryCalls[1]
               a == LoadInput(stdin)
           IN  /\ ~({"start", "period"} \subseteq DOMAIN call)
               /\ IF Explicit(a, K_start_date)
                  THEN "start" \in DOMAIN call
                       /\ call.start = Strip(ToStr(Lookup(a, K_start_date)))
                  ELSE /\ "period" \in DOMAIN call
                       /\ call.period = (IF Explicit(a, K_period)
                                         THEN Strip(ToStr(Lookup(a, K_period)))
                                         ELSE <<"m", "a", "x">>)
               /\ ~Explicit(a, K_interval) => call.interval = <<"1", "d">>

=============================================================================
